---- MODULE Spec2Model ----
(***************************************************************************)
(* The scheduled crawl subsystem of share-bib: the deduplication cascade   *)
(* (services/deduplication.py), the crawl executor (crawl/executor.py) and *)
(* the crawl scheduler (crawl/scheduler.py), over the tables they read and *)
(* write (crawl_tasks, crawl_task_runs, papers, collections,               *)
(* collection_papers).                                                     *)
(*                                                                         *)
(* Time is counted in days.  The scheduler and every run_task_now call run *)
(* as coroutines of one asyncio event loop: the only point at which an     *)
(* execution yields is the await of source.fetch, so one action models the *)
(* code from a dispatch up to that await and one the code from the return  *)
(* of fetch to the end of the execution.  Each execution works in its own  *)
(* SQLAlchemy session (autoflush off): rows it has flushed but not yet     *)
(* committed are kept in the execution's context and not in the tables.    *)
(***************************************************************************)
EXTENDS Integers, Sequences, FiniteSets, TLC

VARIABLES
  now,          \* the wall clock, in days
  tasks,        \* table crawl_tasks: task id -> row
  collections,  \* table collections: collection id -> created_by
  papers,       \* table papers: sequence of rows, a paper's id is its index
  members,      \* table collection_papers: set of rows
  runs,         \* table crawl_task_runs: run id -> row
  running,      \* CrawlScheduler._running_tasks
  sweep,        \* the polling loop: where it is and the due tasks still to run
  ex,           \* the executions suspended in `await source.fetch`, per context
  calls,        \* the run_task_now calls made so far and what each returned
  attempts,     \* history: the executions that passed the reentrancy guard
  probe,        \* the call of a function made on its own, and its result
  shutdown      \* _stop_event, and where the call of stop() is

vars == <<now, tasks, collections, papers, members, runs, running, sweep, ex,
          calls, attempts, probe, shutdown>>

-----------------------------------------------------------------------------
(* Bounds of the model *)

MaxTime == 1        \* the clock stops advancing here
MaxRuns == 2        \* executions that pass the guard
MaxCalls == 2       \* run_task_now calls
MaxBatch == 2       \* items one fetch returns, under Spec
MaxExecBatch == 3   \* items one fetch returns, under SpecExec
MaxPapers == 2      \* rows of the papers table, under SpecDedup
MaxKeywords == 3    \* expressions of a keyword filter, under SpecFilter
MaxFields == 2      \* declared config fields of a source, under SpecConfig
MaxRequests == 6    \* page requests of one search fetch, under SpecSource
MaxLimit == 2       \* config["limit"] of a search task, under SpecSource
MaxPage == 2        \* records in one response or feed, under SpecSource
MaxCategories == 2  \* config["categories"] of a feed task, under SpecSource

-----------------------------------------------------------------------------
(* Values *)

None == "none"                \* Python None / SQL NULL in a string column
NoTime == -1                  \* None in a DateTime column
NoPaper == 0                  \* no Paper (paper ids start at 1)
NoColl == <<>>                \* no collection id

Users == {"u1", "u2"}
TaskIds == {"t1", "t2"}

\* Characters a title is made of: an upper-case letter, two lower-case
\* letters, a punctuation mark and a blank.
WordChars == {"A", "a", "b"}
Blank == " "
Punct == "!"

-----------------------------------------------------------------------------
(* services/deduplication.py *)

\* str.lower() on the letters the model's texts are written with
LowerOf ==
  [A |-> "a", G |-> "g", M |-> "m", N |-> "n", P |-> "p", S |-> "s", T |-> "t"]

Lower(ch) == IF ch \in DOMAIN LowerOf THEN LowerOf[ch] ELSE ch

RECURSIVE LowerAll(_)
LowerAll(s) ==
  IF s = <<>> THEN <<>> ELSE <<Lower(Head(s))>> \o LowerAll(Tail(s))

\* re.sub(r"[^\w\s]", "", title)
RECURSIVE RemovePunct(_)
RemovePunct(s) ==
  IF s = <<>> THEN <<>>
  ELSE IF Head(s) \in WordChars \/ Head(s) = Blank
       THEN <<Head(s)>> \o RemovePunct(Tail(s))
       ELSE RemovePunct(Tail(s))

\* re.sub(r"\s+", " ", title)
RECURSIVE CollapseBlanks(_)
CollapseBlanks(s) ==
  IF Len(s) < 2 THEN s
  ELSE IF s[1] = Blank /\ s[2] = Blank
       THEN CollapseBlanks(Tail(s))
       ELSE <<Head(s)>> \o CollapseBlanks(Tail(s))

\* str.strip()
RECURSIVE StripLeft(_)
StripLeft(s) ==
  IF s # <<>> /\ Head(s) = Blank THEN StripLeft(Tail(s)) ELSE s

RECURSIVE StripRight(_)
StripRight(s) ==
  IF s # <<>> /\ s[Len(s)] = Blank
  THEN StripRight(SubSeq(s, 1, Len(s) - 1))
  ELSE s

Strip(s) == StripRight(StripLeft(s))

normalize_title(title) == Strip(CollapseBlanks(RemovePunct(LowerAll(title))))


\* get_paper_query() with the join on CollectionPaper but without the filter
\* on Collection.created_by
PaperQueryAnyOwner(db, owner) ==
  IF owner # None
  THEN {p \in DOMAIN db.rows : \E m \in db.mem : m.paper_id = p}
  ELSE DOMAIN db.rows

\* get_paper_query(): the ids of the papers the queries range over.  db is the
\* session's view: rows (what SQL sees), objs (the attribute values of the
\* loaded Paper objects), mem (collection_papers rows), colls (collections).
PaperQuery(db, owner) ==
  IF owner # None
  THEN {p \in DOMAIN db.rows :
          \E m \in db.mem :
            /\ m.paper_id = p
            /\ m.collection_id \in DOMAIN db.colls
            /\ db.colls[m.collection_id] = owner}
  ELSE DOMAIN db.rows

\* .filter(Paper.<key> == value): decided by SQL, on the rows
ByKey(db, owner, key, value) ==
  {p \in PaperQuery(db, owner) : db.rows[p][key] = value}

\* the loop over get_paper_query().all(): decided in Python, on the objects
ByTitle(db, owner, title) ==
  {p \in PaperQuery(db, owner) :
     normalize_title(db.objs[p].title) = normalize_title(title)}

\* return existing, info / return None, None
Match(p, mt) == [paper |-> p, match |-> mt]
NoMatch == [paper |-> NoPaper, match |-> None]

\* .first(), and the first paper of .all() with the title: one of ps
Found(ps, mt) == {Match(p, mt) : p \in ps}

\* Step 4 of the cascade
TitleStep(db, d, owner) ==
  IF ByTitle(db, owner, d.title) # {}
  THEN Found(ByTitle(db, owner, d.title), "title")
  ELSE {NoMatch}

\* Step 3
DoiStep(db, d, owner) ==
  IF d.doi # None /\ ByKey(db, owner, "doi", d.doi) # {}
  THEN Found(ByKey(db, owner, "doi", d.doi), "doi")
  ELSE TitleStep(db, d, owner)

\* Steps 2 and 3 in the other order
DoiBeforeArxiv(db, d, owner) ==
  IF d.doi # None /\ ByKey(db, owner, "doi", d.doi) # {}
  THEN Found(ByKey(db, owner, "doi", d.doi), "doi")
  ELSE IF d.arxiv_id # None /\ ByKey(db, owner, "arxiv_id", d.arxiv_id) # {}
       THEN Found(ByKey(db, owner, "arxiv_id", d.arxiv_id), "arxiv_id")
       ELSE TitleStep(db, d, owner)

\* Step 2
ArxivStep(db, d, owner) ==
  IF d.arxiv_id # None /\ ByKey(db, owner, "arxiv_id", d.arxiv_id) # {}
  THEN Found(ByKey(db, owner, "arxiv_id", d.arxiv_id), "arxiv_id")
  ELSE DoiStep(db, d, owner)

\* The outcomes find_duplicate_paper can have: .first() and .all() carry no
\* ORDER BY, so any of the matching rows of the winning step may be returned.
find_duplicate_paper(db, d, owner) ==
  IF d.bibtex_key # None /\ ByKey(db, owner, "bibtex_key", d.bibtex_key) # {}
  THEN Found(ByKey(db, owner, "bibtex_key", d.bibtex_key), "bibtex_key")
  ELSE ArxivStep(db, d, owner)


-----------------------------------------------------------------------------
(* crawl/types.py, crawl/executor.py *)

\* The dict execute() starts from and returns.  error is None unless the
\* target collection is gone.
Result(n, s, u, errs, cid, err) ==
  [new_papers |-> n, skipped |-> s, updated |-> u, errors |-> errs,
   collection_id |-> cid, error |-> err]

EmptyResult == Result(0, 0, 0, <<>>, NoColl, None)

\* An entry of result["errors"]: the per-item handler records the item (by
\* its place in the batch), the handler around the whole run does not.
ItemError(i) == [item |-> i, reason |-> "exception"]
TopError == [item |-> 0, reason |-> "exception"]

\* The status to_paper_dict() sets: "accessible" when the item has url_arxiv
\* or url_pdf.  The search-API source sets both from the arxiv id, and
\* url_pdf from openAccessPdf, which the items here do not carry.
StatusOf(d) == IF d.arxiv_id # None THEN "accessible" ELSE "no_access"

\* Paper(**paper_dict): a column the dict has no key for is NULL
NewPaper(d) ==
  [bibtex_key |-> d.bibtex_key, arxiv_id |-> d.arxiv_id, doi |-> d.doi,
   title |-> d.title, status |-> StatusOf(d)]

\* for key, value in paper_dict.items():
\*     if value is not None and key != "status": setattr(existing, key, value)
\* (to_paper_dict has dropped the None values; the title is never None)
Overwrite(obj, d) ==
  [bibtex_key |-> IF d.bibtex_key # None THEN d.bibtex_key ELSE obj.bibtex_key,
   arxiv_id |-> IF d.arxiv_id # None THEN d.arxiv_id ELSE obj.arxiv_id,
   doi |-> IF d.doi # None THEN d.doi ELSE obj.doi,
   title |-> d.title,
   status |-> obj.status]

CP(cid, p, order) ==
  [collection_id |-> cid, paper_id |-> p, display_order |-> order]

SamePair(a, b) ==
  a.collection_id = b.collection_id /\ a.paper_id = b.paper_id

\* UniqueConstraint("collection_id", "paper_id"): the INSERTs of a flush fail
\* when a pending row repeats the pair of another pending row or of a row of
\* the table.
UniqueViolated(s) ==
  \E i \in DOMAIN s.pend :
    \/ \E j \in DOMAIN s.pend : j # i /\ SamePair(s.pend[i], s.pend[j])
    \/ \E m \in s.mem : SamePair(s.pend[i], m)

RECURSIVE SeqToSet(_)
SeqToSet(q) == IF q = <<>> THEN {} ELSE {Head(q)} \cup SeqToSet(Tail(q))

\* db.flush(): the attribute changes and the pending rows go to the database.
\* With autoflush off this is the only way they get there.  A failing flush
\* rolls the transaction back and leaves the session unusable (every later
\* statement raises PendingRollbackError) until rollback() or close().
Flush(s) ==
  IF s.dead THEN s
  ELSE IF UniqueViolated(s) THEN [s EXCEPT !.dead = TRUE]
  ELSE [s EXCEPT !.rows = s.objs,
                 !.mem = s.mem \cup SeqToSet(s.pend),
                 !.pend = <<>>]

AddError(s, i) == [s EXCEPT !.errors = Append(@, ItemError(i))]

\* The CollectionPaper of the item with display_order = max_order + 1 but
\* without "max_order += 1"
LinkSameOrder(s, cid, p) ==
  IF \E m \in s.mem : m.collection_id = cid /\ m.paper_id = p
  THEN s
  ELSE [s EXCEPT !.pend = Append(@, CP(cid, p, s.max_order + 1))]

\* "Collection 内去重" and the CollectionPaper the item gets: the query sees
\* the flushed rows only.
Link(s, cid, p) ==
  IF \E m \in s.mem : m.collection_id = cid /\ m.paper_id = p
  THEN s
  ELSE [s EXCEPT !.max_order = @ + 1,
                 !.pend = Append(@, CP(cid, p, s.max_order + 1))]

\* if existing: the duplicate strategy
OnExisting(s, strategy, p, d) ==
  IF strategy = "update"
  THEN [s EXCEPT !.objs[p] = Overwrite(@, d), !.updated = @ + 1]
  ELSE [s EXCEPT !.skipped = @ + 1]

\* else: paper = Paper(**paper_dict); db.add(paper); db.flush()
OnNew(s, cid, d, i) ==
  LET f == Flush([s EXCEPT !.objs = Append(@, NewPaper(d))])
  IN IF f.dead
     THEN AddError(f, i)
     ELSE Link([f EXCEPT !.new_papers = @ + 1], cid, Len(f.rows))

\* The body of "for fetched in papers" for the i-th item d, when
\* find_duplicate_paper ends as o
ItemStep(s, tk, cid, d, i, o) ==
  IF o.paper # NoPaper
  THEN Link(OnExisting(s, tk.duplicate_strategy, o.paper, d), cid, o.paper)
  ELSE OnNew(s, cid, d, i)

\* History of one item: the record it resolved to (NoPaper: none), whether
\* that record had a membership row in the target collection, in the tables
\* (linked) or still pending in the session (pending), the membership rows
\* and the counter increments the item added, and whether it failed.
Logged(s, after, p, cid) ==
  [after EXCEPT !.log = Append(@,
     [paper |-> p,
      linked |-> \E m \in s.mem : m.collection_id = cid /\ m.paper_id = p,
      pending |-> \E k \in DOMAIN s.pend :
                    s.pend[k].collection_id = cid /\ s.pend[k].paper_id = p,
      rows |-> Len(after.pend) - Len(s.pend)
               + Cardinality(after.mem) - Cardinality(s.mem),
      counted |-> (after.new_papers + after.skipped + after.updated)
                  - (s.new_papers + s.skipped + s.updated),
      failed |-> Len(after.errors) > Len(s.errors)])]

\* The session states the body of the loop can end in for the i-th item d.
\* On an unusable session the first statement of find_duplicate_paper raises.
ProcessItem(s, tk, cid, d, i) ==
  IF s.dead THEN {Logged(s, AddError(s, i), NoPaper, cid)}
  ELSE {Logged(s, ItemStep(s, tk, cid, d, i, o), o.paper, cid)
         : o \in find_duplicate_paper(s, d, tk.user_id)}

RECURSIVE ProcessFrom(_, _, _, _, _)
ProcessFrom(ss, tk, cid, batch, i) ==
  IF i > Len(batch) THEN ss
  ELSE ProcessFrom(UNION {ProcessItem(s, tk, cid, batch[i], i) : s \in ss},
                   tk, cid, batch, i + 1)

\* max_order taken as 0, without the query
MaxOrderUnread(mem, cid) == 0

\* db.query(func.max(CollectionPaper.display_order)) ... .scalar() or 0
MaxOrder(mem, cid) ==
  LET os == {m.display_order : m \in {x \in mem : x.collection_id = cid}}
  IN IF os = {} THEN 0
     ELSE CHOOSE o \in os : \A o2 \in os : o2 <= o

\* The session an execution works in once fetch has returned
Session(rows, mem, colls, cid) ==
  [rows |-> rows, objs |-> rows, mem |-> mem, colls |-> colls, pend |-> <<>>,
   max_order |-> MaxOrder(mem, cid), new_papers |-> 0, skipped |-> 0,
   updated |-> 0, errors |-> <<>>, dead |-> FALSE, log |-> <<>>]

\* Steps 3 to 5 of execute(): the loop over the fetched items and db.commit()
ProcessBatch(s0, tk, cid, batch) ==
  {Flush(s) : s \in ProcessFrom({s0}, tk, cid, batch, 1)}


\* crawl/sources/__init__.py: REGISTRY and get_source (FALSE: it raises)
Registry == {"arxiv_rss", "semantic_scholar"}
get_source(source_type) == source_type \in Registry

\* uuid.uuid4().hex[:4], the suffix of a colliding collection id
Suffixes == {"0a1b", "2c3d"}

\* cid = f"{slug}-{date_str}", and f"{cid}-{uuid4().hex[:4]}" on a collision
DatedId(prefix, day) == <<prefix, day>>
SuffixedId(prefix, day, sfx) == <<prefix, day, sfx>>

\* _resolve_collection without the test that the target of an append task
\* is still there
ResolveCollectionUnchecked(tk, colls, day) ==
  IF tk.target_mode = "append"
  THEN {[kind |-> "ok", cid |-> tk.target_collection_id, created |-> FALSE]}
  ELSE IF DatedId(tk.prefix, day) \notin DOMAIN colls
       THEN {[kind |-> "ok", cid |-> DatedId(tk.prefix, day), created |-> TRUE]}
       ELSE {[kind |-> IF SuffixedId(tk.prefix, day, x) \in DOMAIN colls
                       THEN "clash" ELSE "ok",
              cid |-> SuffixedId(tk.prefix, day, x), created |-> TRUE]
             : x \in Suffixes}

\* _resolve_collection: how it can end.  kind "deleted": the target of an
\* append task is gone (the task is disabled and None returned); "ok": the
\* collection is there, or was created and flushed; "clash": the INSERT of the
\* created collection fails on its primary key.
ResolveCollection(tk, colls, day) ==
  IF tk.target_mode = "append"
  THEN IF tk.target_collection_id \in DOMAIN colls
       THEN {[kind |-> "ok", cid |-> tk.target_collection_id, created |-> FALSE]}
       ELSE {[kind |-> "deleted", cid |-> NoColl, created |-> FALSE]}
  ELSE IF DatedId(tk.prefix, day) \notin DOMAIN colls
       THEN {[kind |-> "ok", cid |-> DatedId(tk.prefix, day), created |-> TRUE]}
       ELSE {[kind |-> IF SuffixedId(tk.prefix, day, x) \in DOMAIN colls
                       THEN "clash" ELSE "ok",
              cid |-> SuffixedId(tk.prefix, day, x), created |-> TRUE]
             : x \in Suffixes}

-----------------------------------------------------------------------------
(* crawl/scheduler.py *)

compute_next_run(schedule_type, from_time) ==
  IF schedule_type = "once" THEN NoTime
  ELSE IF schedule_type = "daily" THEN from_time + 1
  ELSE IF schedule_type = "weekly" THEN from_time + 7
  ELSE IF schedule_type = "monthly" THEN from_time + 30
  ELSE from_time + 1

SweepCtx == 0                       \* the context of the polling loop
Ctxs == 0 .. MaxCalls               \* and those of the run_task_now calls

Idle ==
  [pc |-> "idle", task |-> None, start |-> NoTime, run |-> 0, coll |-> NoColl,
   created |-> FALSE]

\* run = CrawlTaskRun(task_id=task.id, status="running", started_at=now)
NewRun(t, start) ==
  [task_id |-> t, status |-> "running", started_at |-> start,
   finished_at |-> NoTime, result |-> EmptyResult, collection_id |-> NoColl]

\* The result _resolve_collection and execute() give when the target is gone
DeletedResult == Result(0, 0, 0, <<>>, NoColl, "target_collection_deleted")

\* last_run_result = {"error": str(e)} of the scheduler's exception handler
ExceptionResult == Result(0, 0, 0, <<>>, NoColl, "exception")

\* The task after an execution that returned `result` (lines 130-140)
TaskAfterRun(tk, start, result) ==
  [tk EXCEPT !.last_run_at = start,
             !.last_run_status =
                IF result.errors # <<>> THEN "partial" ELSE "success",
             !.last_run_result = result,
             !.next_run_at = compute_next_run(tk.schedule_type, start),
             !.is_enabled = IF tk.schedule_type = "once" THEN FALSE ELSE @]

\* The task after an execution that raised (lines 157-162)
TaskAfterException(tk, start) ==
  [tk EXCEPT !.last_run_at = start,
             !.last_run_status = "failed",
             !.last_run_result = ExceptionResult,
             !.next_run_at = compute_next_run(tk.schedule_type, start),
             !.is_enabled = IF tk.schedule_type = "once" THEN FALSE ELSE @]

\* _resolve_collection clearing next_run_at with the rest when the target is
\* gone
TaskAfterDeletedCleared(tk) ==
  [tk EXCEPT !.is_enabled = FALSE,
             !.last_run_status = "failed",
             !.last_run_result = DeletedResult,
             !.next_run_at = NoTime]

\* The task as _resolve_collection leaves it when the target is gone
TaskAfterDeleted(tk) ==
  [tk EXCEPT !.is_enabled = FALSE,
             !.last_run_status = "failed",
             !.last_run_result = DeletedResult]

\* The run as finalized (lines 124-126, 142-145, 164-166)
RunFinished(run, status, result, finished) ==
  [run EXCEPT !.status = status, !.result = result,
              !.collection_id = result.collection_id,
              !.finished_at = finished]


\* The history entry of an execution that passed the guard; the
\* CrawlTaskRun it created has the entry's index as id.  outcome: "running",
\* then the status the scheduler recorded ("success", "partial", "failed"),
\* "deleted" for the early exit on a missing target, or "raised" when the
\* exception left _execute_task.  log: the history of the fetched items;
\* item_errors: the entries the per-item handler appended to errors[];
\* since: the second argument of source.fetch, once it has been called.
Attempt(t, c, start) ==
  [task |-> t, ctx |-> c, start |-> start, outcome |-> "running",
   fetch |-> "none", since |-> NoTime, fetched |-> <<>>, log |-> <<>>,
   item_errors |-> 0]

\* How `await self._execute_task(task, db)` can end for its caller
Ends == {"skipped", "suspended", "done", "raised"}

\* While the polling loop runs synchronous code (from the query of the due
\* tasks to the next await) no other coroutine of the event loop runs.
SweepHoldsLoop == sweep.pc = "run" /\ ex[SweepCtx].pc = "idle"

\* _execute_task_inner from its start to the await of source.fetch, or to its
\* end when it does not get there.
ExecuteTaskInner(c, t, end) ==
  LET tk == tasks[t]
      rid == Len(attempts) + 1
      a == Attempt(t, c, now)
  IN
  /\ Len(attempts) < MaxRuns
  /\ IF ~get_source(tk.source_type)
     THEN \* execute() raises ValueError: the handler of lines 155-167
          /\ end = "done"
          /\ tasks' = [tasks EXCEPT ![t] = TaskAfterException(tk, now)]
          /\ runs' = runs @@
               (rid :> RunFinished(NewRun(t, now), "failed", ExceptionResult, now))
          /\ attempts' = Append(attempts, [a EXCEPT !.outcome = "failed"])
          /\ ex' = ex
     ELSE \E r \in ResolveCollection(tk, collections, now) :
          IF r.kind = "deleted"
          THEN \* lines 119-128 of the executor, 123-128 of the scheduler
               /\ end = "done"
               /\ tasks' = [tasks EXCEPT ![t] = TaskAfterDeleted(tk)]
               /\ runs' = runs @@
                    (rid :> [NewRun(t, now) EXCEPT !.status = "failed",
                                                   !.result = DeletedResult,
                                                   !.finished_at = now])
               /\ attempts' = Append(attempts, [a EXCEPT !.outcome = "deleted"])
               /\ ex' = ex
          ELSE IF r.kind = "clash"
          THEN \* the flush of the new collection fails: execute() returns the
               \* error, the scheduler's next statement raises on the unusable
               \* session, inside its handler too; nothing was committed
               /\ end = "raised"
               /\ attempts' = Append(attempts, [a EXCEPT !.outcome = "raised"])
               /\ UNCHANGED <<tasks, runs, ex>>
          ELSE \* await source.fetch(task.source_config, task.last_run_at)
               /\ end = "suspended"
               /\ ex' = [ex EXCEPT ![c] =
                           [pc |-> "fetch", task |-> t, start |-> now,
                            run |-> rid, coll |-> r.cid, created |-> r.created]]
               /\ attempts' = Append(attempts, [a EXCEPT !.since = tk.last_run_at])
               /\ UNCHANGED <<tasks, runs>>

\* _execute_task without the test of _running_tasks
ExecuteTaskUnguarded(c, t, end) ==
  /\ ExecuteTaskInner(c, t, end)
  /\ running' = IF end = "suspended" THEN running \cup {t} ELSE running

\* _execute_task: the reentrancy guard around _execute_task_inner; the
\* finally clause discards the id once the inner call has ended.
ExecuteTask(c, t, end) ==
  IF t \in running
  THEN /\ end = "skipped"
       /\ UNCHANGED <<tasks, runs, running, ex, attempts>>
  ELSE /\ ExecuteTaskInner(c, t, end)
       /\ running' = IF end = "suspended" THEN running \cup {t} ELSE running

\* run_task_now(task_id), up to its return or to the await of source.fetch
RunTaskNow(t) ==
  /\ Len(calls) < MaxCalls
  /\ ~SweepHoldsLoop
  /\ IF t \in running \/ t \notin DOMAIN tasks
     THEN /\ calls' = Append(calls, [task |-> t, ret |-> "false"])
          /\ UNCHANGED <<tasks, runs, running, ex, attempts>>
     ELSE \E end \in Ends :
          /\ ExecuteTask(Len(calls) + 1, t, end)
          /\ calls' = Append(calls,
               [task |-> t,
                ret |-> IF end = "suspended" THEN "pending"
                        ELSE IF end = "raised" THEN "raised" ELSE "true"])
  /\ UNCHANGED <<now, collections, papers, members, sweep, probe, shutdown>>

RECURSIVE Orderings(_)
Orderings(S) ==
  IF S = {} THEN {<<>>}
  ELSE UNION {{<<x>> \o q : q \in Orderings(S \ {x})} : x \in S}

\* The query of _check_and_run
DueTasks ==
  {t \in DOMAIN tasks :
     /\ tasks[t].is_enabled
     /\ tasks[t].next_run_at # NoTime
     /\ tasks[t].next_run_at <= now}

\* _run_loop going on to a sweep whatever _stop_event is
CheckAndRunUnstopped ==
  /\ sweep.pc = "wait"
  /\ \E due \in Orderings(DueTasks) : sweep' = [pc |-> "run", due |-> due]
  /\ UNCHANGED <<now, tasks, collections, papers, members, runs, running, ex,
                 calls, attempts, probe, shutdown>>

\* _run_loop at its wait with _stop_event clear: the 60 seconds pass, the
\* test of the while loop lets it go on, and _check_and_run reads the due
\* tasks (in no stated order)
CheckAndRun ==
  /\ sweep.pc = "wait"
  /\ ~shutdown.event
  /\ \E due \in Orderings(DueTasks) : sweep' = [pc |-> "run", due |-> due]
  /\ UNCHANGED <<now, tasks, collections, papers, members, runs, running, ex,
                 calls, attempts, probe, shutdown>>

\* for task in due_tasks: await self._execute_task(task, db).  An exception
\* leaves the loop over the due tasks; _run_loop logs it and waits.
SweepDispatch ==
  /\ sweep.pc = "run"
  /\ ex[SweepCtx].pc = "idle"
  /\ sweep.due # <<>>
  /\ \E end \in Ends :
       /\ ExecuteTask(SweepCtx, Head(sweep.due), end)
       /\ sweep' = IF end = "raised" THEN [pc |-> "wait", due |-> <<>>]
                   ELSE [sweep EXCEPT !.due = Tail(@)]
  /\ UNCHANGED <<now, collections, papers, members, calls, probe, shutdown>>

\* the due tasks are done: back to the wait of _run_loop
SweepDone ==
  /\ sweep.pc = "run"
  /\ ex[SweepCtx].pc = "idle"
  /\ sweep.due = <<>>
  /\ sweep' = [sweep EXCEPT !.pc = "wait"]
  /\ UNCHANGED <<now, tasks, collections, papers, members, runs, running, ex,
                 calls, attempts, probe, shutdown>>


\* stop() up to its await: the event is set, the caller waits for the loop
\* task
Stop ==
  /\ shutdown.pc = "idle"
  /\ ~SweepHoldsLoop
  /\ shutdown' = [event |-> TRUE, pc |-> "awaiting", during |-> sweep.pc,
                  owed |-> Len(sweep.due)]
  /\ UNCHANGED <<now, tasks, collections, papers, members, runs, running,
                 sweep, ex, calls, attempts, probe>>

\* _run_loop at its wait with _stop_event set: wait_for returns and the loop
\* breaks (line 75), or the timeout came first and the test of the while
\* loop fails (line 67); the loop task is done
LoopExit ==
  /\ sweep.pc = "wait"
  /\ shutdown.event
  /\ sweep' = [sweep EXCEPT !.pc = "exited"]
  /\ UNCHANGED <<now, tasks, collections, papers, members, runs, running, ex,
                 calls, attempts, probe, shutdown>>

\* `await self._task` of stop() completes when the loop task is done
StopReturns ==
  /\ shutdown.pc = "awaiting"
  /\ sweep.pc = "exited"
  /\ shutdown' = [shutdown EXCEPT !.pc = "returned"]
  /\ UNCHANGED <<now, tasks, collections, papers, members, runs, running,
                 sweep, ex, calls, attempts, probe>>

\* The end of an execution with the discard of line 107 outside a finally
\* clause: an exception skips it
EndedWithoutFinally(c, outcome, fetch, batch, log) ==
  LET e == ex[c] IN
  /\ running' = IF outcome = "raised" THEN running ELSE running \ {e.task}
  /\ ex' = [ex EXCEPT ![c] = Idle]
  /\ attempts' = [attempts EXCEPT ![e.run] =
        [@ EXCEPT !.outcome = outcome, !.fetch = fetch, !.fetched = batch,
                  !.log = log,
                  !.item_errors = Cardinality({k \in DOMAIN log : log[k].failed})]]
  /\ IF c = SweepCtx
     THEN /\ sweep' = IF outcome = "raised" THEN [pc |-> "wait", due |-> <<>>]
                      ELSE sweep
          /\ calls' = calls
     ELSE /\ calls' = [calls EXCEPT ![c].ret =
                         IF outcome = "raised" THEN "raised" ELSE "true"]
          /\ sweep' = sweep

\* The end of the execution suspended in context c: the finally clause of
\* _execute_task, and the return to run_task_now or to the loop of the sweep.
Ended(c, outcome, fetch, batch, log) ==
  LET e == ex[c] IN
  /\ running' = running \ {e.task}
  /\ ex' = [ex EXCEPT ![c] = Idle]
  /\ attempts' = [attempts EXCEPT ![e.run] =
        [@ EXCEPT !.outcome = outcome, !.fetch = fetch, !.fetched = batch,
                  !.log = log,
                  !.item_errors = Cardinality({k \in DOMAIN log : log[k].failed})]]
  /\ IF c = SweepCtx
     THEN /\ sweep' = IF outcome = "raised" THEN [pc |-> "wait", due |-> <<>>]
                      ELSE sweep
          /\ calls' = calls
     ELSE /\ calls' = [calls EXCEPT ![c].ret =
                         IF outcome = "raised" THEN "raised" ELSE "true"]
          /\ sweep' = sweep

\* The execution ends with the session unusable after a failed flush or
\* commit: nothing of it is committed, the exception leaves _execute_task.
Crashed(c, fetch, batch, log) ==
  /\ Ended(c, "raised", fetch, batch, log)
  /\ UNCHANGED <<tasks, collections, papers, members, runs>>

\* lines 130-147 with the time of the end where the code has the time of the
\* start
FinalizeFromEnd(c, result, fetch, batch, log) ==
  LET e == ex[c]
      t == e.task
      after == TaskAfterRun(tasks[t], now, result)
  IN
  /\ tasks' = [tasks EXCEPT ![t] = after]
  /\ runs' = runs @@
       (e.run :> RunFinished(NewRun(t, e.start), after.last_run_status,
                             result, now))
  /\ collections' = IF e.created
                    THEN collections @@ (e.coll :> tasks[t].user_id)
                    ELSE collections
  /\ Ended(c, after.last_run_status, fetch, batch, log)

\* The scheduler's lines 130-147 after execute() returned `result`
Finalize(c, result, fetch, batch, log) ==
  LET e == ex[c]
      t == e.task
      after == TaskAfterRun(tasks[t], e.start, result)
  IN
  /\ tasks' = [tasks EXCEPT ![t] = after]
  /\ runs' = runs @@
       (e.run :> RunFinished(NewRun(t, e.start), after.last_run_status,
                             result, now))
  /\ collections' = IF e.created
                    THEN collections @@ (e.coll :> tasks[t].user_id)
                    ELSE collections
  /\ Ended(c, after.last_run_status, fetch, batch, log)

\* The INSERT of the collection this execution created meets a committed row
\* with the same id
CreatedClash(c) == ex[c].created /\ ex[c].coll \in DOMAIN collections

\* source.fetch raises and the handler of execute() records nothing
FetchRaisesUnrecorded(c) ==
  /\ ex[c].pc = "fetch"
  /\ ~SweepHoldsLoop
  /\ IF CreatedClash(c)
     THEN Crashed(c, "raised", <<>>, <<>>)
     ELSE /\ Finalize(c, Result(0, 0, 0, <<>>, ex[c].coll, None),
                      "raised", <<>>, <<>>)
          /\ UNCHANGED <<papers, members>>
  /\ UNCHANGED <<now, probe, shutdown>>

\* source.fetch raises: the handler of execute() (lines 105-107) records the
\* error and execute() returns the result.
FetchRaises(c) ==
  /\ ex[c].pc = "fetch"
  /\ ~SweepHoldsLoop
  /\ IF CreatedClash(c)
     THEN Crashed(c, "raised", <<>>, <<>>)
     ELSE /\ Finalize(c, Result(0, 0, 0, <<TopError>>, ex[c].coll, None),
                      "raised", <<>>, <<>>)
          /\ UNCHANGED <<papers, members>>
  /\ UNCHANGED <<now, probe, shutdown>>

\* source.fetch returns one of the batches of B: steps 3 to 5 of execute(),
\* then the scheduler's bookkeeping.
FetchReturns(c, B) ==
  /\ ex[c].pc = "fetch"
  /\ ~SweepHoldsLoop
  /\ \E batch \in B :
     LET e == ex[c]
         tk == tasks[e.task]
         colls == IF e.created /\ ~CreatedClash(c)
                  THEN collections @@ (e.coll :> tk.user_id)
                  ELSE collections
     IN \E s \in ProcessBatch(Session(papers, members, colls, e.coll),
                              tk, e.coll, batch) :
        IF s.dead \/ CreatedClash(c)
        THEN Crashed(c, "returned", batch, s.log)
        ELSE /\ papers' = s.rows
             /\ members' = s.mem
             /\ Finalize(c, Result(s.new_papers, s.skipped, s.updated,
                                   s.errors, e.coll, None),
                         "returned", batch, s.log)
  /\ UNCHANGED <<now, probe, shutdown>>

\* a day passes
Tick ==
  /\ now < MaxTime
  /\ now' = now + 1
  /\ UNCHANGED <<tasks, collections, papers, members, runs, running, sweep,
                 ex, calls, attempts, probe, shutdown>>

\* api/crawl_tasks.py disable_crawl_task: like every `def` endpoint it runs
\* in a worker thread, whatever the event loop is doing.
DisableTask(t) ==
  /\ t \in DOMAIN tasks
  /\ tasks' = [tasks EXCEPT ![t].is_enabled = FALSE]
  /\ UNCHANGED <<now, collections, papers, members, runs, running, sweep, ex,
                 calls, attempts, probe, shutdown>>

\* api/collections.py delete_collection: the collection goes, and with it
\* (cascade="all, delete-orphan") its collection_papers rows.  The handler
\* runs in a worker thread, whatever the event loop is doing.
DeleteCollection(cid) ==
  /\ cid \in DOMAIN collections
  /\ collections' = [x \in DOMAIN collections \ {cid} |-> collections[x]]
  /\ members' = {m \in members : m.collection_id # cid}
  /\ UNCHANGED <<now, tasks, papers, runs, running, sweep, ex, calls,
                 attempts, probe, shutdown>>


-----------------------------------------------------------------------------
(* crawl/sources: the keyword filter of arxiv_rss.py and semantic_scholar.py *)

Newline == "\n"

\* re.match of the pattern at the start of txt: a "*" of the keyword is ".*"
\* (any run of characters other than a newline), every other character is
\* itself (re.escape)
RECURSIVE MatchHere(_, _)
MatchHere(pat, txt) ==
  IF pat = <<>> THEN TRUE
  ELSE IF Head(pat) = "*"
  THEN \E k \in 0 .. Len(txt) :
         /\ \A j \in 1 .. k : txt[j] # Newline
         /\ MatchHere(Tail(pat), SubSeq(txt, k + 1, Len(txt)))
  ELSE /\ txt # <<>>
       /\ Head(txt) = Head(pat)
       /\ MatchHere(Tail(pat), Tail(txt))

\* re.search(regex, text)
Search(pat, txt) ==
  \E k \in 0 .. Len(txt) : MatchHere(pat, SubSeq(txt, k + 1, Len(txt)))

\* pattern in text
Contains(pat, txt) ==
  \E k \in 0 .. (Len(txt) - Len(pat)) : SubSeq(txt, k + 1, k + Len(pat)) = pat

\* _match(pattern, text)
KeywordMatch(pattern, text) ==
  IF \E k \in DOMAIN pattern : pattern[k] = "*"
  THEN Search(pattern, text)
  ELSE Contains(pattern, text)

\* The loop over the raw keywords: required, excluded and optional terms
RECURSIVE SortKeywords(_, _)
SortKeywords(keywords, acc) ==
  IF keywords = <<>> THEN acc
  ELSE LET kw == Strip(Head(keywords)) IN
       SortKeywords(Tail(keywords),
         IF kw = <<>> THEN acc
         ELSE IF Head(kw) = "+"
         THEN [acc EXCEPT !.required = Append(@, LowerAll(Tail(kw)))]
         ELSE IF Head(kw) = "-"
         THEN [acc EXCEPT !.excluded = Append(@, LowerAll(Tail(kw)))]
         ELSE [acc EXCEPT !.optional = Append(@, LowerAll(kw))])

\* f"{paper.title} {paper.abstract or ''}".lower()
FilterText(title, abstract) ==
  LowerAll(title \o <<Blank>> \o abstract)

\* The three loops with their early returns, in the order of the code
FirstMiss(terms, text) ==
  \E k \in DOMAIN terms :
    /\ ~KeywordMatch(terms[k], text)
    /\ \A j \in 1 .. (k - 1) : KeywordMatch(terms[j], text)

FirstHit(terms, text) ==
  \E k \in DOMAIN terms :
    /\ KeywordMatch(terms[k], text)
    /\ \A j \in 1 .. (k - 1) : ~KeywordMatch(terms[j], text)

\* _matches_keywords with the optional terms looked at before the excluded
\* ones
MatchesKeywordsOptionalFirst(title, abstract, keywords) ==
  IF keywords = <<>> THEN TRUE
  ELSE LET text == FilterText(title, abstract)
           kws == SortKeywords(keywords,
                    [required |-> <<>>, excluded |-> <<>>, optional |-> <<>>])
       IN IF FirstMiss(kws.required, text) THEN FALSE
          ELSE IF kws.optional # <<>> /\ FirstHit(kws.optional, text) THEN TRUE
          ELSE IF FirstHit(kws.excluded, text) THEN FALSE
          ELSE kws.optional = <<>>

\* _matches_keywords(paper, keywords); an absent or empty abstract is <<>>,
\* an absent or empty filter is <<>>
matches_keywords(title, abstract, keywords) ==
  IF keywords = <<>> THEN TRUE
  ELSE LET text == FilterText(title, abstract)
           kws == SortKeywords(keywords,
                    [required |-> <<>>, excluded |-> <<>>, optional |-> <<>>])
       IN IF FirstMiss(kws.required, text) THEN FALSE
          ELSE IF FirstHit(kws.excluded, text) THEN FALSE
          ELSE IF kws.optional # <<>> /\ ~FirstHit(kws.optional, text) THEN FALSE
          ELSE TRUE

-----------------------------------------------------------------------------
(* crawl/sources/semantic_scholar.py, crawl/sources/arxiv_rss.py: fetch *)

\* fetch of the search-API source at its first request: results = [],
\* retries_left = 3.  streak, waits, recovered, failure and requests are
\* history: the 429 responses in a row up to now, the back-off waits made for
\* them, whether a successful response ended such a row, whether a request
\* or the decoding of a response failed, and the requests made.
SearchStart(limit) ==
  [asked |-> TRUE, source |-> "semantic_scholar", pc |-> "request",
   limit |-> limit, retries_left |-> 3, results |-> 0, value |-> None,
   requests |-> 0, streak |-> 0, waits |-> 0, recovered |-> FALSE,
   failure |-> FALSE]

\* while len(results) < limit: back to the request, or return results
LoopTest(st) ==
  IF st.results < st.limit
  THEN [st EXCEPT !.pc = "request"]
  ELSE [st EXCEPT !.pc = "returned", !.value = st.results]

\* if resp.status_code == 429: raise when no retry is left, else sleep 5 s
\* and continue
On429(st) ==
  IF st.retries_left - 1 <= 0
  THEN [st EXCEPT !.retries_left = @ - 1, !.pc = "raised"]
  ELSE [st EXCEPT !.retries_left = @ - 1, !.pc = "backoff"]

\* client.get, raise_for_status or resp.json() raises: logged and re-raised
OnError(st) == [st EXCEPT !.pc = "raised"]

\* A decoded page without "retries_left = 3"
OnPageNoReset(st, raw, kept, token) ==
  IF raw = 0
  THEN [st EXCEPT !.pc = "returned", !.value = st.results]
  ELSE LET n == IF st.results + kept > st.limit THEN st.limit
                ELSE st.results + kept
       IN IF ~token
          THEN [st EXCEPT !.results = n, !.pc = "returned", !.value = n]
          ELSE [st EXCEPT !.results = n, !.pc = "pause"]

\* A decoded page of `raw` records, `kept` of which parse and pass the
\* keyword filter, with or without a continuation token: retries_left = 3;
\* no record: break; results grow up to limit; no token: break; else
\* sleep 1 s and test the loop condition
OnPage(st, raw, kept, token) ==
  IF raw = 0
  THEN [st EXCEPT !.retries_left = 3, !.pc = "returned", !.value = st.results]
  ELSE LET n == IF st.results + kept > st.limit THEN st.limit
                ELSE st.results + kept
       IN IF ~token
          THEN [st EXCEPT !.retries_left = 3, !.results = n,
                          !.pc = "returned", !.value = n]
          ELSE [st EXCEPT !.retries_left = 3, !.results = n, !.pc = "pause"]

\* fetch of the feed source before its first category
FeedStart(ncat) ==
  [asked |-> TRUE, source |-> "arxiv_rss", pc |-> "category", ncat |-> ncat,
   cat |-> 1, results |-> 0, value |-> None, failure |-> FALSE]

\* for cat in config["categories"]: ... return results
NextCategory(st) ==
  IF st.cat < st.ncat
  THEN [st EXCEPT !.cat = @ + 1]
  ELSE [st EXCEPT !.cat = @ + 1, !.pc = "returned", !.value = st.results]

\* The feed of a category is read: `kept` entries parse, are new and pass
\* the keyword filter
OnFeed(st, kept) == NextCategory([st EXCEPT !.results = @ + kept])

\* feedparser.parse or the handling of an entry raises: except Exception
\* logs the error and the loop goes on to the next category
OnFeedError(st) == NextCategory(st)

-----------------------------------------------------------------------------
(* crawl/sources/base.py *)

\* config.get(f.key, f.default)
ConfigGet(config, f) ==
  IF f.key \in DOMAIN config THEN config[f.key] ELSE f.default

\* The loop of validate_config over the declared fields: it stops at the
\* first required field whose value is None
RECURSIVE ValidateFields(_, _, _)
ValidateFields(fields, config, cleaned) ==
  IF fields = <<>> THEN [raised |-> FALSE, cleaned |-> cleaned]
  ELSE LET f == Head(fields)
           value == ConfigGet(config, f)
       IN IF f.required /\ value = None
          THEN [raised |-> TRUE, cleaned |-> <<>>]
          ELSE ValidateFields(Tail(fields), config,
                 [k \in DOMAIN cleaned \cup {f.key} |->
                    IF k = f.key THEN value ELSE cleaned[k]])

\* validate_config without the test of the required fields
ValidateConfigLenient(fields, config) ==
  [raised |-> FALSE,
   cleaned |-> [k \in {fields[i].key : i \in DOMAIN fields} |->
                  LET i == CHOOSE j \in DOMAIN fields : fields[j].key = k
                  IN ConfigGet(config, fields[i])]]

\* CrawlSource.validate_config(config) for a source whose meta declares
\* `fields`
validate_config(fields, config) == ValidateFields(fields, config, <<>>)

-----------------------------------------------------------------------------
(* Inputs *)

\* Titles: T1 and T1v differ in case, punctuation and blanks only; T2 differs
\* from them by a blank between its letters only, which normalization keeps.
T1 == <<"A", " ", "b">>
T1v == <<" ", "a", " ", " ", "b", "!">>
T2 == <<"a", "b">>
T2v == <<"A", "!", "b">>

Item(k, a, d, t) == [bibtex_key |-> k, arxiv_id |-> a, doi |-> d, title |-> t]

\* api/crawl_tasks.py create_crawl_task: the row of a new task
CreatedTask(user, sched, mode, target, prefix, strategy, next) ==
  [user_id |-> user, source_type |-> "semantic_scholar",
   schedule_type |-> sched, target_mode |-> mode,
   target_collection_id |-> target, prefix |-> prefix,
   duplicate_strategy |-> strategy, is_enabled |-> TRUE,
   last_run_at |-> NoTime, last_run_status |-> None,
   last_run_result |-> EmptyResult, next_run_at |-> next]

Schedules == {"once", "daily", "weekly", "monthly"}

\* A collection made through api/collections.py create_collection
UserColl(name) == <<name>>

\* CrawlScheduler after start(): _stop_event clear, stop() not called.
\* during, owed: where the polling loop was when stop() was called, and how
\* many due tasks its sweep had still to take.
NotStopping == [event |-> FALSE, pc |-> "idle", during |-> "none", owed |-> 0]

NoProbe == [asked |-> FALSE, owner |-> None, item |-> Item(None, None, None, T1),
            result |-> NoMatch]

RECURSIVE SeqsUpTo(_, _)
SeqsUpTo(S, n) ==
  IF n = 0 THEN {<<>>}
  ELSE SeqsUpTo(S, n - 1) \cup
       {Append(q, x) : q \in {r \in SeqsUpTo(S, n - 1) : Len(r) = n - 1}, x \in S}

-----------------------------------------------------------------------------
(* The scheduler: two tasks of one user, the polling loop and run_task_now *)

SchedItems == {Item(None, "a1", None, T1)}

SchedBatches == SeqsUpTo(SchedItems, MaxBatch)

Init ==
  /\ now = 0
  /\ collections = (UserColl("c1") :> "u1")
  /\ \E sched \in Schedules, mode \in {"append", "create_new"} :
       LET first == CreatedTask("u1", sched, mode,
                      IF mode = "append" THEN UserColl("c1") ELSE NoColl,
                      "p1", "skip", 0)
           second == CreatedTask("u1", "daily", "append", UserColl("c1"),
                       "p2", "skip", 0)
       IN tasks = ("t1" :> first) @@ ("t2" :> second)
  /\ papers = <<>>
  /\ members = {}
  /\ runs = <<>>
  /\ running = {}
  /\ sweep = [pc |-> "wait", due |-> <<>>]
  /\ ex = [c \in Ctxs |-> Idle]
  /\ calls = <<>>
  /\ attempts = <<>>
  /\ probe = NoProbe
  /\ shutdown = NotStopping

Next ==
  \/ Tick
  \/ CheckAndRun
  \/ SweepDispatch
  \/ SweepDone
  \/ \E t \in TaskIds : RunTaskNow(t)
  \/ \E c \in Ctxs : FetchReturns(c, SchedBatches)
  \/ \E c \in Ctxs : FetchRaises(c)
  \/ DeleteCollection(UserColl("c1"))

Spec == Init /\ [][Next]_vars

-----------------------------------------------------------------------------
(* The scheduler and the task control of the API: two recurring tasks that  *)
(* append to the same collection, either of which can be disabled or run    *)
(* through run_task_now at any moment.                                      *)

ControlInit ==
  /\ Init
  /\ tasks["t1"].schedule_type = "daily"
  /\ tasks["t1"].target_mode = "append"

ControlNext ==
  \/ Tick
  \/ CheckAndRun
  \/ SweepDispatch
  \/ SweepDone
  \/ \E t \in TaskIds : RunTaskNow(t)
  \/ \E c \in Ctxs : FetchReturns(c, SchedBatches)
  \/ \E c \in Ctxs : FetchRaises(c)
  \/ \E t \in TaskIds : DisableTask(t)

SpecControl == ControlInit /\ [][ControlNext]_vars

-----------------------------------------------------------------------------
(* Two tasks that append to the same collection and fetch different papers: *)
(* the execution the sweep dispatched and the one run_task_now started      *)
(* overlap at the await of source.fetch.                                    *)

OverlapItems == {Item(None, "a1", None, T1), Item(None, None, "d1", T2)}

OverlapBatches == SeqsUpTo(OverlapItems, MaxBatch)

OverlapNext ==
  \/ Tick
  \/ CheckAndRun
  \/ SweepDispatch
  \/ SweepDone
  \/ \E t \in TaskIds : RunTaskNow(t)
  \/ \E c \in Ctxs : FetchReturns(c, OverlapBatches)

SpecOverlap == ControlInit /\ [][OverlapNext]_vars

-----------------------------------------------------------------------------
(* The scheduler with its shutdown: stop() is called at any moment.  An     *)
(* execution is dispatched only while the history has room for the ones     *)
(* the sweep in progress still has to make, so that the bound on the        *)
(* history never holds the sweep up.  The event loop runs every coroutine   *)
(* that is ready, and every fetch returns or raises in the end.             *)

\* The executions the sweep in progress may still start
SweepOwes == IF sweep.pc = "run" THEN Len(sweep.due) ELSE 0

StopNext ==
  \/ Tick
  \/ (Len(attempts) + Cardinality(DueTasks) <= MaxRuns /\ CheckAndRun)
  \/ SweepDispatch
  \/ SweepDone
  \/ \E t \in TaskIds : (Len(attempts) + SweepOwes < MaxRuns /\ RunTaskNow(t))
  \/ \E c \in Ctxs : FetchReturns(c, SchedBatches)
  \/ \E c \in Ctxs : FetchRaises(c)
  \/ DeleteCollection(UserColl("c1"))
  \/ Stop
  \/ LoopExit
  \/ StopReturns

SpecStop ==
  /\ Init
  /\ [][StopNext]_vars
  /\ WF_vars(SweepDispatch)
  /\ WF_vars(SweepDone)
  /\ WF_vars(LoopExit)
  /\ WF_vars(StopReturns)
  /\ \A c \in Ctxs : WF_vars(FetchReturns(c, SchedBatches) \/ FetchRaises(c))

-----------------------------------------------------------------------------
(* The polling loop left to run for ever: t1 makes a new collection on      *)
(* each run, t2 appends to c1, and stop() is never called.  The loop wakes  *)
(* up every 60 seconds, the event loop runs every coroutine that is ready,  *)
(* and every fetch returns or raises in the end.  The scheduler reads       *)
(* neither the run records nor the histories, which are dropped between     *)
(* executions so that the search is over the scheduler's own state.         *)

LiveInit ==
  /\ Init
  /\ tasks["t1"].schedule_type = "daily"
  /\ tasks["t1"].target_mode = "create_new"

\* The run records and the histories of the executions that have ended are
\* put aside (nothing of scheduler.py or executor.py queries CrawlTaskRun)
ForgetHistory ==
  /\ attempts # <<>>
  /\ \A c \in Ctxs : ex[c].pc = "idle"
  /\ attempts' = <<>>
  /\ runs' = <<>>
  /\ UNCHANGED <<now, tasks, collections, papers, members, running, sweep, ex,
                 calls, probe, shutdown>>

LiveNext ==
  \/ Tick
  \/ CheckAndRun
  \/ SweepDispatch
  \/ SweepDone
  \/ \E c \in Ctxs : FetchReturns(c, SchedBatches)
  \/ \E c \in Ctxs : FetchRaises(c)
  \/ ForgetHistory

SpecLive ==
  /\ LiveInit
  /\ [][LiveNext]_vars
  /\ WF_vars(CheckAndRun)
  /\ WF_vars(SweepDispatch)
  /\ WF_vars(SweepDone)
  /\ WF_vars(ForgetHistory)
  /\ \A c \in Ctxs : WF_vars(FetchReturns(c, SchedBatches) \/ FetchRaises(c))

-----------------------------------------------------------------------------
(* The executor: one task run twice through run_task_now, on batches whose  *)
(* items share identifiers and titles.  The target of an append task need   *)
(* not be a collection of the task's user: create_crawl_task only checks    *)
(* that it exists.                                                          *)

ExecItems ==
  { Item(None, "a1", None, T1),
    Item(None, "a1", "d1", T2),
    Item("k1", None, None, T2v),
    Item(None, None, "d1", T1v) }

ExecBatches == SeqsUpTo(ExecItems, MaxExecBatch)

ExecInit ==
  /\ now = 0
  /\ \E owner \in Users : collections = (UserColl("c1") :> owner)
  /\ \E mode \in {"append", "create_new"},
        strategy \in {"skip", "update", "use_new"} :
       tasks = ("t1" :> CreatedTask("u1", "daily", mode,
                          IF mode = "append" THEN UserColl("c1") ELSE NoColl,
                          "p1", strategy, 0))
  /\ papers = <<>>
  /\ members = {}
  /\ runs = <<>>
  /\ running = {}
  /\ sweep = [pc |-> "wait", due |-> <<>>]
  /\ ex = [c \in Ctxs |-> Idle]
  /\ calls = <<>>
  /\ attempts = <<>>
  /\ probe = NoProbe
  /\ shutdown = NotStopping

ExecNext ==
  \/ RunTaskNow("t1")
  \/ \E c \in Ctxs : FetchReturns(c, ExecBatches)

SpecExec == ExecInit /\ [][ExecNext]_vars

-----------------------------------------------------------------------------
(* The deduplication cascade on its own: find_duplicate_paper called on a   *)
(* store of up to MaxPapers papers, each in a collection of one of two      *)
(* users, for a candidate and a scope (a user, or None for the whole        *)
(* table).                                                                  *)

DedupRows ==
  {Item(k, a, d, t) : k \in {None, "k1"}, a \in {None, "a1"},
                      d \in {None, "d1"}, t \in {T1, T2}}

\* The candidates: the variant T1v of title T1, with or without each of the
\* identifiers
DedupItems ==
  {Item(k, a, d, T1v) : k \in {None, "k1"}, a \in {None, "a1"},
                        d \in {None, "d1"}}

\* The scopes asked for: the collections of u1, or the whole table
DedupScopes == {"u1", None}

DedupInit ==
  /\ now = 0
  /\ collections = (UserColl("c1") :> "u1") @@ (UserColl("c2") :> "u2")
  /\ papers \in SeqsUpTo(DedupRows, MaxPapers)
  /\ \E place \in [DOMAIN papers -> {UserColl("c1"), UserColl("c2")}] :
       members = {CP(place[p], p, p) : p \in DOMAIN papers}
  /\ tasks = <<>>
  /\ runs = <<>>
  /\ running = {}
  /\ sweep = [pc |-> "wait", due |-> <<>>]
  /\ ex = [c \in Ctxs |-> Idle]
  /\ calls = <<>>
  /\ attempts = <<>>
  /\ probe = NoProbe
  /\ shutdown = NotStopping

\* One call find_duplicate_paper(db, paper_data, owner_user_id) on the store
FindDuplicate ==
  /\ ~probe.asked
  /\ \E d \in DedupItems, owner \in DedupScopes :
       \E o \in find_duplicate_paper(
                   Session(papers, members, collections, NoColl), d, owner) :
         probe' = [asked |-> TRUE, owner |-> owner, item |-> d, result |-> o]
  /\ UNCHANGED <<now, tasks, collections, papers, members, runs, running,
                 sweep, ex, calls, attempts, shutdown>>

DedupNext == FindDuplicate

SpecDedup == DedupInit /\ [][DedupNext]_vars

-----------------------------------------------------------------------------
(* The scope of the deduplication: find_duplicate_paper called on a store   *)
(* whose papers are linked to collections of u1, of u2, of both or to no    *)
(* collection at all.                                                       *)

\* Records that the candidates of DedupItems match by one strategy each
ScopeRows ==
  { Item("k1", None, None, T2), Item(None, "a1", None, T2),
    Item(None, None, "d1", T2), Item(None, None, None, T1) }

ScopeInit ==
  /\ now = 0
  /\ collections = (UserColl("c1") :> "u1") @@ (UserColl("c2") :> "u2")
  /\ papers \in SeqsUpTo(ScopeRows, MaxPapers)
  /\ \E place \in [DOMAIN papers -> SUBSET {UserColl("c1"), UserColl("c2")}] :
       members = UNION {{CP(cid, p, p) : cid \in place[p]} : p \in DOMAIN papers}
  /\ tasks = <<>>
  /\ runs = <<>>
  /\ running = {}
  /\ sweep = [pc |-> "wait", due |-> <<>>]
  /\ ex = [c \in Ctxs |-> Idle]
  /\ calls = <<>>
  /\ attempts = <<>>
  /\ probe = NoProbe
  /\ shutdown = NotStopping

ScopeNext == FindDuplicate

SpecScope == ScopeInit /\ [][ScopeNext]_vars

-----------------------------------------------------------------------------
(* The keyword filter on its own: _matches_keywords called on a paper and   *)
(* a list of up to MaxKeywords filter expressions.                          *)

Survey ==
  <<"A", " ", "S", "u", "r", "v", "e", "y", " ", "o", "f", " ", "G", "P", "T",
    " ", "A", "r", "c", "h", "i", "t", "e", "c", "t", "u", "r", "e", "s">>

Neural ==
  <<"N", "e", "u", "r", "a", "l", " ", "G", "P", "T", " ", "M", "o", "d", "e",
    "l", "s">>

FilterTitles == {<<"a">>, <<"A", "b">>, <<"b", " ", "a">>, Survey, Neural}

FilterAbstracts == {<<>>, <<"a", Newline, "b">>}

PlusNeural == <<"+", "n", "e", "u", "r", "a", "l">>
MinusSurvey == <<"-", "s", "u", "r", "v", "e", "y">>
Gpt == <<"g", "p", "t">>

\* Filter expressions: empty and blank ones, bare prefixes, terms in either
\* case with blanks around them, a wildcard, and those of the example
FilterExprs ==
  { <<>>, <<" ">>, <<"-">>, <<"a">>, <<"+", "a">>, <<" ", "+", "A", " ">>,
    <<"-", "a">>, <<"b">>, <<"-", "b">>, <<"a", "*", "b">>,
    PlusNeural, MinusSurvey, Gpt }

\* Nothing stored, nothing running, the function under study not yet called
NoCallInit ==
  /\ now = 0
  /\ collections = <<>>
  /\ papers = <<>>
  /\ members = {}
  /\ tasks = <<>>
  /\ runs = <<>>
  /\ running = {}
  /\ sweep = [pc |-> "wait", due |-> <<>>]
  /\ ex = [c \in Ctxs |-> Idle]
  /\ calls = <<>>
  /\ attempts = <<>>
  /\ probe = [asked |-> FALSE]
  /\ shutdown = NotStopping

\* One call self._matches_keywords(paper, config.get("filter_keywords"))
MatchesKeywords ==
  /\ ~probe.asked
  /\ \E title \in FilterTitles, abstract \in FilterAbstracts,
        keywords \in SeqsUpTo(FilterExprs, MaxKeywords) :
       probe' = [asked |-> TRUE, title |-> title, abstract |-> abstract,
                 keywords |-> keywords,
                 result |-> matches_keywords(title, abstract, keywords)]
  /\ UNCHANGED <<now, tasks, collections, papers, members, runs, running,
                 sweep, ex, calls, attempts, shutdown>>

FilterNext == MatchesKeywords

SpecFilter == NoCallInit /\ [][FilterNext]_vars

-----------------------------------------------------------------------------
(* validate_config on its own: a source that declares up to MaxFields       *)
(* fields, and a raw config that has some of the declared keys, with or     *)
(* without a value, and possibly a key that is not declared.                *)

ConfigKeys == {"query", "limit", "year"}

\* SourceConfigField: key, required, default
ConfigFields ==
  [key : ConfigKeys, required : BOOLEAN, default : {None, "default"}]

\* SourceMeta.config_fields: declared fields with distinct keys
ConfigMetas ==
  {m \in SeqsUpTo(ConfigFields, MaxFields) :
     \A i, j \in DOMAIN m : i # j => m[i].key # m[j].key}

RawConfigs ==
  UNION {[K -> {None, "raw"}] : K \in SUBSET (ConfigKeys \cup {"extra"})}

\* One call source.validate_config(raw config)
ValidateConfig ==
  /\ ~probe.asked
  /\ \E fields \in ConfigMetas, config \in RawConfigs :
       probe' = [asked |-> TRUE, fields |-> fields, config |-> config,
                 result |-> validate_config(fields, config)]
  /\ UNCHANGED <<now, tasks, collections, papers, members, runs, running,
                 sweep, ex, calls, attempts, shutdown>>

ConfigNext == ValidateConfig

SpecConfig == NoCallInit /\ [][ConfigNext]_vars

-----------------------------------------------------------------------------
(* source.fetch on its own: the search-API source against a server that     *)
(* answers each request with a page, 429 or an error, and the feed source   *)
(* against feeds that can be read or not.                                   *)

\* One call source.fetch(config, since)
SourceFetch ==
  /\ ~probe.asked
  /\ \/ \E limit \in 1 .. MaxLimit : probe' = SearchStart(limit)
     \/ \E ncat \in 1 .. MaxCategories : probe' = FeedStart(ncat)
  /\ UNCHANGED <<now, tasks, collections, papers, members, runs, running,
                 sweep, ex, calls, attempts, shutdown>>

\* The response to `await client.get(...)`
SearchResponse ==
  /\ probe.asked /\ probe.source = "semantic_scholar"
  /\ probe.pc = "request"
  /\ probe.requests < MaxRequests
  /\ \/ probe' = [On429(probe) EXCEPT !.requests = @ + 1, !.streak = @ + 1]
     \/ probe' = [OnError(probe) EXCEPT !.requests = @ + 1, !.streak = 0,
                                         !.waits = 0, !.failure = TRUE]
     \/ \E raw \in 0 .. MaxPage, token \in BOOLEAN :
          \E kept \in 0 .. raw :
            probe' = [OnPage(probe, raw, kept, token) EXCEPT
                        !.requests = @ + 1, !.streak = 0, !.waits = 0,
                        !.recovered = @ \/ probe.streak > 0]
  /\ UNCHANGED <<now, tasks, collections, papers, members, runs, running,
                 sweep, ex, calls, attempts, shutdown>>

\* asyncio.sleep returns: 5 s after a 429 (continue), 1 s after a page
SearchResume ==
  /\ probe.asked /\ probe.source = "semantic_scholar"
  /\ probe.pc \in {"backoff", "pause"}
  /\ probe' = IF probe.pc = "backoff"
              THEN [LoopTest(probe) EXCEPT !.waits = @ + 1]
              ELSE LoopTest(probe)
  /\ UNCHANGED <<now, tasks, collections, papers, members, runs, running,
                 sweep, ex, calls, attempts, shutdown>>

\* One turn of the loop over the categories of the feed source
FeedCategory ==
  /\ probe.asked /\ probe.source = "arxiv_rss"
  /\ probe.pc = "category"
  /\ \/ \E kept \in 0 .. MaxPage : probe' = OnFeed(probe, kept)
     \/ probe' = [OnFeedError(probe) EXCEPT !.failure = TRUE]
  /\ UNCHANGED <<now, tasks, collections, papers, members, runs, running,
                 sweep, ex, calls, attempts, shutdown>>

SourceNext ==
  \/ SourceFetch
  \/ SearchResponse
  \/ SearchResume
  \/ FeedCategory

SpecSource == NoCallInit /\ [][SourceNext]_vars

-----------------------------------------------------------------------------
(* Properties of the scheduler *)

\* An execution of task t is suspended in its fetch
InFlight(t) == \E c \in Ctxs : ex[c].pc = "fetch" /\ ex[c].task = t

\* This step is a run_task_now(t) call
CallMade(t) ==
  /\ Len(calls') = Len(calls) + 1
  /\ calls'[Len(calls')].task = t

\* This step is the polling loop taking t from its due tasks
SweepTakes(t) ==
  /\ SweepHoldsLoop
  /\ sweep.due # <<>>
  /\ Head(sweep.due) = t
  /\ sweep' # sweep

\* This step starts the execution with history index i
Starts(i) == i \in DOMAIN attempts' /\ i \notin DOMAIN attempts

\* This step ends the execution with history index i
Finishes(i) ==
  /\ i \in DOMAIN attempts'
  /\ attempts'[i].outcome # "running"
  /\ i \in DOMAIN attempts => attempts[i].outcome = "running"

Recorded == {"success", "partial", "failed", "deleted"}

\* C1: at most one execution of a task is in progress at a time.  A
\* run_task_now call for a task that has an execution in flight returns false
\* in the same step, and the polling loop passes over such a task: neither
\* starts an executor run, creates a run record or touches the task.
C1_OneExecutionPerTask ==
  [][ /\ \A c1, c2 \in Ctxs :
           (c1 # c2 /\ ex'[c1].pc = "fetch" /\ ex'[c2].pc = "fetch")
             => ex'[c1].task # ex'[c2].task
      /\ \A t \in TaskIds :
           InFlight(t) =>
             /\ CallMade(t) =>
                  /\ calls'[Len(calls')].ret = "false"
                  /\ UNCHANGED <<attempts, runs, ex, tasks, running>>
             /\ SweepTakes(t) =>
                  /\ sweep' = [sweep EXCEPT !.due = Tail(@)]
                  /\ UNCHANGED <<attempts, runs, ex, tasks, running>>
    ]_vars

\* A run_task_now call was refused for a task whose execution is still in
\* flight, and the polling loop has passed over the same task.
C1_Witness ==
  \E k \in DOMAIN calls :
    /\ calls[k].ret = "false"
    /\ InFlight(calls[k].task)
    /\ \A i \in DOMAIN attempts :
         attempts[i].task = calls[k].task => attempts[i].ctx # SweepCtx
    /\ sweep.pc = "run"
    /\ sweep.due = <<>>
    /\ tasks[calls[k].task].next_run_at = 0
    /\ tasks[calls[k].task].is_enabled

\* C2: after an execution the task's last_run_status and the run's status are
\* equal: "success" when the executor returned without errors, "partial" when
\* it returned with per-item errors only, "failed" when the fetch raised or the
\* target collection is gone.
C2_StatusMapping ==
  [][ \A i \in DOMAIN attempts' :
        (Finishes(i) /\ attempts'[i].outcome \in Recorded) =>
          LET a == attempts'[i]
              expected ==
                IF a.outcome = "deleted" \/ a.fetch = "raised" THEN "failed"
                ELSE IF a.item_errors > 0 THEN "partial"
                ELSE "success"
          IN /\ i \in DOMAIN runs'
             /\ runs'[i].status = expected
             /\ tasks'[a.task].last_run_status = expected
    ]_vars

\* C3: an execution of an append task whose target collection does not exist
\* never reaches the fetch and writes no paper and no membership row; it
\* leaves the task disabled with last_run_status "failed", and its run
\* finalized as "failed" with the error target_collection_deleted.
C3_DeletedTarget ==
  [][ \A i \in DOMAIN attempts' :
        LET t == attempts'[i].task IN
        ( /\ Starts(i)
          /\ tasks[t].target_mode = "append"
          /\ tasks[t].target_collection_id \notin DOMAIN collections ) =>
          /\ attempts'[i].outcome = "deleted"
          /\ attempts'[i].fetch = "none"
          /\ UNCHANGED <<ex, running, papers, members, collections>>
          /\ ~tasks'[t].is_enabled
          /\ tasks'[t].last_run_status = "failed"
          /\ tasks'[t].last_run_result.error = "target_collection_deleted"
          /\ i \in DOMAIN runs'
          /\ runs'[i].status = "failed"
          /\ runs'[i].finished_at # NoTime
          /\ runs'[i].result.error = "target_collection_deleted"
    ]_vars

\* An enabled append task lost its target collection and was then executed.
C3_Witness ==
  \E i \in DOMAIN attempts :
    LET t == attempts[i].task IN
    /\ attempts[i].outcome = "deleted"
    /\ tasks[t].target_mode = "append"
    /\ tasks[t].target_collection_id \notin DOMAIN collections
    /\ ~tasks[t].is_enabled
    /\ i \in DOMAIN runs
    /\ runs[i].result.error = "target_collection_deleted"

\* The polling loop reads the due tasks in this step
SweepStarts == sweep.pc = "wait" /\ sweep'.pc = "run"

\* The once task t has had an execution that has ended
OnceDone(t) ==
  /\ tasks[t].schedule_type = "once"
  /\ \E i \in DOMAIN attempts :
       attempts[i].task = t /\ attempts[i].outcome # "running"

\* C4: after any single execution of a once task, whatever its outcome, the
\* task is disabled and its next_run_at is null, and no sweep that starts
\* later dispatches it.  (After an execution on a deleted target, where
\* section 4.5 of the specification has next_run_at left untouched, only
\* is_enabled is looked at.)
C4_OnceAnyOutcome ==
  [][ /\ \A i \in DOMAIN attempts' :
           LET t == attempts'[i].task IN
           (Finishes(i) /\ tasks[t].schedule_type = "once") =>
             /\ ~tasks'[t].is_enabled
             /\ attempts'[i].outcome # "deleted" =>
                  tasks'[t].next_run_at = NoTime
      /\ SweepStarts =>
           \A k \in DOMAIN sweep'.due : ~OnceDone(sweep'.due[k])
    ]_vars

Period(schedule_type) ==
  IF schedule_type = "daily" THEN 1
  ELSE IF schedule_type = "weekly" THEN 7 ELSE 30

\* C5 as stated: after an execution of a daily, weekly or monthly task that
\* ends in success, partial or failed, next_run_at is the start of the
\* execution plus 1, 7 or 30 days.
C5_NextRunAnyStatus ==
  [][ \A i \in DOMAIN attempts' :
        LET t == attempts'[i].task IN
        ( /\ Finishes(i)
          /\ attempts'[i].outcome \in Recorded
          /\ tasks[t].schedule_type \in {"daily", "weekly", "monthly"} ) =>
          tasks'[t].next_run_at =
            attempts'[i].start + Period(tasks[t].schedule_type)
    ]_vars

\* C5 amended: after an execution of a daily, weekly or monthly task that
\* ends in success, partial or failed by exception, next_run_at is the start
\* of the execution plus 1, 7 or 30 days, whatever next_run_at was and however
\* long the execution took; when it ends as failed because the target
\* collection is gone, next_run_at is left as it was.
C5_NextRunFromStart ==
  [][ \A i \in DOMAIN attempts' :
        LET t == attempts'[i].task IN
        ( /\ Finishes(i)
          /\ attempts'[i].outcome \in Recorded
          /\ tasks[t].schedule_type \in {"daily", "weekly", "monthly"} ) =>
          tasks'[t].next_run_at =
            IF attempts'[i].outcome = "deleted"
            THEN tasks[t].next_run_at
            ELSE attempts'[i].start + Period(tasks[t].schedule_type)
    ]_vars

\* A recurring task whose last execution started on one day and ended on the
\* next, and whose next_run_at before it was not the start of the execution
\* (it was run before it was due, or late).
C5_Witness ==
  \E i \in DOMAIN attempts :
    LET t == attempts[i].task IN
    /\ tasks[t].schedule_type \in {"weekly", "monthly"}
    /\ attempts[i].outcome \in {"success", "partial"}
    /\ i \in DOMAIN runs
    /\ runs[i].finished_at > runs[i].started_at
    /\ tasks[t].last_run_at = attempts[i].start
    /\ tasks[t].next_run_at = attempts[i].start + Period(tasks[t].schedule_type)

\* C7: every execution that passes the guard has one run record, created in
\* status running before the executor is called; when the execution ends the
\* record is finalized with a status among success, partial, failed and a
\* finished_at, on every path; a finalized record never changes again.
C7_RunRecords ==
  [][ /\ \A i \in DOMAIN attempts' :
           /\ Starts(i) =>
                /\ i = Len(attempts) + 1
                /\ attempts'[i].outcome = "running" =>
                     \E c \in Ctxs : ex'[c].pc = "fetch" /\ ex'[c].run = i
           /\ Finishes(i) =>
                /\ i \in DOMAIN runs'
                /\ runs'[i].task_id = attempts'[i].task
                /\ runs'[i].status \in {"success", "partial", "failed"}
                /\ runs'[i].finished_at # NoTime
      /\ \A i \in DOMAIN runs : i \in DOMAIN runs' /\ runs'[i] = runs[i]
    ]_vars

\* The run records of task t with status success
SuccessfulRuns(t) ==
  {j \in DOMAIN runs : runs[j].task_id = t /\ runs[j].status = "success"}

\* C30: the since value an execution passes to source.fetch is None when
\* the task has no successful run yet (so on its first run, and after runs
\* that failed), and otherwise the completion time of its last successful
\* run.
C30_SinceLastSuccess ==
  [][ \A i \in DOMAIN attempts' :
        (Starts(i) /\ attempts'[i].outcome = "running") =>
          LET ok == SuccessfulRuns(attempts'[i].task)
          IN attempts'[i].since =
               IF ok = {} THEN NoTime
               ELSE runs[CHOOSE j \in ok : \A k \in ok : k <= j].finished_at
    ]_vars

C11_RunTaskNowResult ==
  [][ /\ \A t \in TaskIds :
           CallMade(t) =>
             IF t \in running
             THEN calls'[Len(calls')].ret = "false"
             ELSE calls'[Len(calls')].ret \in {"true", "pending"}
      /\ \A k \in DOMAIN calls :
           (calls[k].ret = "pending" /\ calls'[k].ret # "pending") =>
             calls'[k].ret = "true"
      /\ \A k \in DOMAIN calls' :
           LET made == {i \in DOMAIN attempts' : attempts'[i].ctx = k} IN
           /\ calls'[k].ret = "false" => made = {}
           /\ calls'[k].ret = "true" =>
                /\ Cardinality(made) = 1
                /\ \A i \in made :
                     /\ attempts'[i].task = calls'[k].task
                     /\ i \in DOMAIN runs'
                     /\ runs'[i].task_id = calls'[k].task
    ]_vars

\* C12: once stop() has been called the polling loop starts no sweep; the
\* loop leaves only from its wait, after the sweep that was in progress has
\* gone through its due tasks; stop() has returned only when the loop task is
\* done; and, every execution terminating, a stop() that was called returns.
C12_StopEndsLoop ==
  /\ [][ /\ shutdown.event => ~SweepStarts
         /\ (sweep'.pc = "exited" /\ sweep.pc # "exited") =>
              (sweep.pc = "wait" /\ shutdown.event)
         /\ (shutdown.event /\ sweep.pc = "run" /\ sweep'.pc = "wait") =>
              \/ sweep.due = <<>>
              \/ \E i \in DOMAIN attempts' :
                   attempts'[i].ctx = SweepCtx /\ attempts'[i].outcome = "raised"
         /\ sweep.pc = "exited" => sweep'.pc = "exited"
       ]_vars
  /\ [](shutdown.pc = "returned" => sweep.pc = "exited")
  /\ (shutdown.pc = "awaiting") ~> (shutdown.pc = "returned")

\* stop() was called while a sweep was in the fetch of its first due task;
\* the sweep went on to execute its second due task, and stop() has returned.
C12_Witness ==
  /\ shutdown.pc = "returned"
  /\ shutdown.during = "run"
  /\ shutdown.owed = 1
  /\ sweep.pc = "exited"
  /\ Len(attempts) = 2
  /\ \A i \in DOMAIN attempts :
       /\ attempts[i].ctx = SweepCtx
       /\ attempts[i].outcome \in {"success", "partial"}

\* C15: the polling loop executes a task only if the task is enabled and
\* due (next_run_at <= now) at the moment of its dispatch: a task disabled
\* or run through run_task_now since the sweep read its due tasks is passed
\* over.
C15_SweepRechecksDue ==
  [][ \A t \in TaskIds :
        (SweepTakes(t) /\ \E i \in DOMAIN attempts' : Starts(i)) =>
          /\ tasks[t].is_enabled
          /\ tasks[t].next_run_at # NoTime
          /\ tasks[t].next_run_at <= now
    ]_vars

\* The tasks that have an execution in progress
InProgress == {attempts[i].task : i \in {j \in DOMAIN attempts :
                                           attempts[j].outcome = "running"}}

C17_FailureContained ==
  [][ \A i \in DOMAIN attempts' :
        LET a == attempts'[i] IN
        (Finishes(i) /\ (a.fetch = "raised" \/ a.outcome = "deleted")) =>
          /\ a.outcome \in Recorded
          /\ i \in DOMAIN runs'
          /\ runs'[i].status = "failed"
          /\ tasks'[a.task].last_run_status = "failed"
          /\ a.ctx = SweepCtx =>
               /\ sweep'.pc = "run"
               /\ sweep'.due = IF Starts(i) THEN Tail(sweep.due) ELSE sweep.due
    ]_vars

\* C18: when source.fetch raises, the result of the run has exactly one
\* error entry and new_papers = skipped = updated = 0, and the run writes no
\* Paper record and no membership row.
C18_FetchErrorWritesNothing ==
  [][ \A i \in DOMAIN attempts' :
        (Finishes(i) /\ attempts'[i].fetch = "raised") =>
          /\ i \in DOMAIN runs'
          /\ Len(runs'[i].result.errors) = 1
          /\ runs'[i].result.new_papers = 0
          /\ runs'[i].result.skipped = 0
          /\ runs'[i].result.updated = 0
          /\ tasks'[attempts'[i].task].last_run_result = runs'[i].result
          /\ UNCHANGED <<papers, members>>
    ]_vars

\* The fetch of a task raised in a run made after another run had stored a
\* paper: the table of papers and the membership rows are as that run left
\* them.
C18_Witness ==
  \E i \in DOMAIN attempts :
    /\ attempts[i].fetch = "raised"
    /\ i \in DOMAIN runs
    /\ Len(runs[i].result.errors) = 1
    /\ Len(papers) = 1
    /\ Cardinality(members) = 1
    /\ \E j \in DOMAIN attempts : j < i /\ attempts[j].outcome = "success"

\* C19: an execution that ends on the target_collection_deleted path leaves
\* the task's next_run_at as it was: neither recomputed from the schedule
\* nor cleared.
C19_DeletedKeepsNextRun ==
  [][ \A i \in DOMAIN attempts' :
        (Finishes(i) /\ attempts'[i].outcome = "deleted") =>
          LET t == attempts'[i].task IN
            tasks'[t].next_run_at = tasks[t].next_run_at
    ]_vars

\* A recurring task was executed a day after it was due, its target gone:
\* next_run_at is still the day it was due, neither null nor the start of
\* the execution plus the period.
C19_Witness ==
  \E i \in DOMAIN attempts :
    LET t == attempts[i].task IN
    /\ attempts[i].outcome = "deleted"
    /\ attempts[i].start = 1
    /\ tasks[t].schedule_type = "daily"
    /\ tasks[t].next_run_at = 0
    /\ ~tasks[t].is_enabled

-----------------------------------------------------------------------------
(* Properties of the executor *)

RECURSIVE RowsAdded(_)
RowsAdded(log) ==
  IF log = <<>> THEN 0 ELSE Head(log).rows + RowsAdded(Tail(log))

\* C6: when the processing of a fetched item fails, the failure is appended
\* to errors[] and the run goes on: every other item of the batch is
\* processed, and the Paper and membership rows written for the other items
\* are committed with the run.
C6_ItemFailureIsolated ==
  [][ \A i \in DOMAIN attempts' :
        (Finishes(i) /\ attempts'[i].item_errors > 0) =>
          LET a == attempts'[i] IN
          /\ a.outcome \in Recorded
          /\ i \in DOMAIN runs'
          /\ Len(runs'[i].result.errors) = a.item_errors
          /\ runs'[i].result.new_papers + runs'[i].result.skipped
               + runs'[i].result.updated = Len(a.fetched) - a.item_errors
          /\ Len(papers') = Len(papers) + runs'[i].result.new_papers
          /\ Cardinality(members') = Cardinality(members) + RowsAdded(a.log)
    ]_vars

\* C8: when a task is run twice in a row on the same fetched items, with no
\* other change to the store in between, the second run has new_papers = 0
\* and counts every item as skipped, or as updated when the strategy is
\* update.
C8_SecondRunAddsNothing ==
  \A i \in DOMAIN attempts :
    ( /\ i + 1 \in DOMAIN attempts
      /\ attempts[i + 1].task = attempts[i].task
      /\ attempts[i].fetch = "returned"
      /\ attempts[i + 1].fetch = "returned"
      /\ attempts[i + 1].fetched = attempts[i].fetched
      /\ attempts[i].outcome \in Recorded ) =>
      /\ attempts[i + 1].outcome \in Recorded
      /\ LET r == runs[i + 1].result
             n == Len(attempts[i].fetched)
         IN /\ r.new_papers = 0
            /\ IF tasks[attempts[i].task].duplicate_strategy = "update"
               THEN r.updated = n /\ r.skipped = 0
               ELSE r.skipped = n /\ r.updated = 0

\* C9: for a fetched item that resolves to a record already linked to the
\* target collection, no membership row is added and none of new_papers,
\* skipped, updated is incremented.
C9_LinkedItemUntouched ==
  \A i \in DOMAIN attempts :
    \A k \in DOMAIN attempts[i].log :
      LET e == attempts[i].log[k] IN
      (e.paper # NoPaper /\ e.linked) => (e.rows = 0 /\ e.counted = 0)

\* The membership rows the items of `log` that resolved to paper p added
RECURSIVE RowsFor(_, _)
RowsFor(log, p) ==
  IF log = <<>> THEN 0
  ELSE (IF Head(log).paper = p THEN Head(log).rows ELSE 0)
       + RowsFor(Tail(log), p)

\* C20: no collection ever holds two membership rows for the same paper;
\* and when two items of one fetched batch resolve to the same Paper record,
\* not yet linked to the target collection, the run adds exactly one
\* membership row for it and commits.
C20_OneRowPerPaper ==
  /\ \A m1, m2 \in members : SamePair(m1, m2) => m1 = m2
  /\ \A i \in DOMAIN attempts :
       attempts[i].outcome # "running" =>
         \A k, l \in DOMAIN attempts[i].log :
           LET first == attempts[i].log[k]
               second == attempts[i].log[l]
           IN ( /\ k < l
                /\ first.paper # NoPaper
                /\ second.paper = first.paper
                /\ ~first.linked /\ ~first.pending ) =>
                /\ attempts[i].outcome \in Recorded
                /\ RowsFor(attempts[i].log, first.paper) = 1

\* Two fetched items are duplicates of each other under the cascade
DupItems(a, b) ==
  \/ a.arxiv_id # None /\ a.arxiv_id = b.arxiv_id
  \/ a.doi # None /\ a.doi = b.doi
  \/ normalize_title(a.title) = normalize_title(b.title)

\* C21: within one run on a collection of the task's user, when an item that
\* matched no record was inserted as a new Paper, every later item of the
\* batch that is a duplicate of it (same arxiv_id, same doi or same
\* normalized title) is matched to a record and inserts no second Paper,
\* wherever the two stand in the batch.
C21_BatchDuplicatesMerged ==
  \A i \in DOMAIN attempts :
    ( /\ attempts[i].outcome \in {"success", "partial"}
      /\ attempts[i].fetch = "returned"
      /\ collections[runs[i].collection_id] = tasks[attempts[i].task].user_id ) =>
      \A k, l \in DOMAIN attempts[i].log :
        ( /\ k < l
          /\ attempts[i].log[k].paper = NoPaper
          /\ ~attempts[i].log[k].failed
          /\ DupItems(attempts[i].fetched[k], attempts[i].fetched[l]) ) =>
          attempts[i].log[l].paper # NoPaper

\* The id of the Paper the k-th item of `log` was linked as: the record it
\* resolved to, or the next primary key after the n papers of the table and
\* the papers the run inserted before.
LinkedPaper(log, k, n) ==
  IF log[k].paper # NoPaper THEN log[k].paper
  ELSE n + Cardinality({l \in 1..k : log[l].paper = NoPaper /\ ~log[l].failed})

\* C22: the membership rows a run appends get display_order max+1, max+2,
\* ... in fetch order, max being the largest display_order of the target
\* collection when the run reads it (0 for a collection without rows): each
\* is above every row the collection had, and no two of them share a value.
C22_DisplayOrderAppended ==
  [][ \A i \in DOMAIN attempts' :
        ( /\ Finishes(i)
          /\ attempts'[i].outcome \in {"success", "partial"}
          /\ attempts'[i].fetch = "returned" ) =>
          LET a == attempts'[i]
              cid == runs'[i].collection_id
              max == MaxOrder(members, cid)
              added == members' \ members
          IN /\ members \subseteq members'
             /\ Cardinality(added) = RowsAdded(a.log)
             /\ \A k \in DOMAIN a.log :
                  a.log[k].rows = 1 =>
                    CP(cid, LinkedPaper(a.log, k, Len(papers)),
                       max + RowsAdded(SubSeq(a.log, 1, k))) \in added
             /\ \A m \in added :
                  /\ m.collection_id = cid
                  /\ \A o \in members :
                       o.collection_id = cid => o.display_order < m.display_order
             /\ \A m1, m2 \in added :
                  m1.display_order = m2.display_order => m1 = m2
    ]_vars

\* A run appended two rows to a collection that an earlier run had appended
\* rows to.
C22_Witness ==
  \E i, j \in DOMAIN attempts :
    /\ i < j
    /\ attempts[i].outcome = "success" /\ attempts[j].outcome = "success"
    /\ runs[i].collection_id = runs[j].collection_id
    /\ RowsAdded(attempts[i].log) >= 1
    /\ RowsAdded(attempts[j].log) = 2

\* C23: when the executions of two tasks that append to the same collection
\* overlap (one dispatched by the sweep, the other started by run_task_now,
\* both suspended at the fetch), the membership rows they add to the
\* collection never share a display_order: the rows of one collection have
\* distinct display_order values at all times.
C23_OverlapDistinctOrders ==
  \A m1, m2 \in members :
    ( /\ m1.collection_id = m2.collection_id
      /\ m1.display_order = m2.display_order ) => m1 = m2

\* Two executions of different tasks on one collection overlapped (the one
\* that started later ended a day before the other) and both added rows.
C23_Witness ==
  \E i, j \in DOMAIN attempts :
    /\ i < j
    /\ attempts[i].task # attempts[j].task
    /\ attempts[i].outcome = "success" /\ attempts[j].outcome = "success"
    /\ attempts[i].ctx # attempts[j].ctx
    /\ runs[i].collection_id = runs[j].collection_id
    /\ runs[j].finished_at < runs[i].finished_at
    /\ RowsAdded(attempts[i].log) >= 1
    /\ RowsAdded(attempts[j].log) >= 1

\* Record obj with every non-null field of candidate d but status written
\* onto it
WithFieldsOf(obj, d) ==
  [f \in DOMAIN obj |->
     IF f # "status" /\ f \in DOMAIN d /\ d[f] # None THEN d[f] ELSE obj[f]]

\* Record obj after the items of the batch that resolved to paper p, from
\* the k-th on, have been written onto it
RECURSIVE AfterUpdates(_, _, _, _, _)
AfterUpdates(obj, log, batch, p, k) ==
  IF k > Len(log) THEN obj
  ELSE AfterUpdates(IF log[k].paper = p THEN WithFieldsOf(obj, batch[k]) ELSE obj,
                    log, batch, p, k + 1)

\* C25: when fetched items match existing records, the run gives a result in
\* which, under duplicate_strategy update, each of them counts as updated and
\* every non-null field of the item but status has been written onto the
\* record it matched; under any other strategy each counts as skipped and
\* the records are unchanged.  No Paper is created for a matched item.
C25_ExistingRecord ==
  [][ \A i \in DOMAIN attempts' :
        ( /\ Finishes(i)
          /\ attempts'[i].fetch = "returned"
          /\ \E k \in DOMAIN attempts'[i].log :
               attempts'[i].log[k].paper # NoPaper ) =>
          LET a == attempts'[i]
              matched == {k \in DOMAIN a.log : a.log[k].paper # NoPaper}
              fresh == {k \in DOMAIN a.log :
                          a.log[k].paper = NoPaper /\ ~a.log[k].failed}
          IN /\ a.outcome \in {"success", "partial"}
             /\ Len(papers') = Len(papers) + Cardinality(fresh)
             /\ IF tasks[a.task].duplicate_strategy = "update"
                THEN /\ runs'[i].result.updated = Cardinality(matched)
                     /\ runs'[i].result.skipped = 0
                     /\ \A p \in DOMAIN papers :
                          papers'[p] = AfterUpdates(papers[p], a.log, a.fetched, p, 1)
                ELSE /\ runs'[i].result.skipped = Cardinality(matched)
                     /\ runs'[i].result.updated = 0
                     /\ \A p \in DOMAIN papers : papers'[p] = papers[p]
    ]_vars

\* C26: every run whose fetch succeeded has a result in which new_papers +
\* skipped + updated + the number of per-item errors is the number of
\* fetched items.
C26_ItemsAccounted ==
  \A i \in DOMAIN attempts :
    (attempts[i].outcome # "running" /\ attempts[i].fetch = "returned") =>
      /\ i \in DOMAIN runs
      /\ LET r == runs[i].result
         IN r.new_papers + r.skipped + r.updated + Len(r.errors)
              = Len(attempts[i].fetched)

-----------------------------------------------------------------------------
(* Properties of the deduplication cascade *)

Strategies == <<"bibtex_key", "arxiv_id", "doi", "title">>

\* The papers of the scope: all of them, or those with a membership row in a
\* collection of the owner
InScope(owner) ==
  IF owner = None THEN DOMAIN papers
  ELSE {p \in DOMAIN papers :
          \E m \in members :
            /\ m.paper_id = p
            /\ m.collection_id \in DOMAIN collections
            /\ collections[m.collection_id] = owner}

\* The papers of the scope that strategy k finds for candidate d
Hits(k, d, owner) ==
  {p \in InScope(owner) :
     IF Strategies[k] = "title"
     THEN normalize_title(papers[p].title) = normalize_title(d.title)
     ELSE d[Strategies[k]] # None /\ papers[p][Strategies[k]] = d[Strategies[k]]}

\* C10: find_duplicate_paper returns the match of the first strategy, in the
\* order bibtex_key, arxiv_id, doi, normalized title, that finds a record in
\* the scope, with that strategy as match type; a strategy whose identifier
\* is absent or finds nothing falls through to the next; (none, none) is
\* returned only when all four find nothing.
C10_CascadePriority ==
  probe.asked =>
    LET d == probe.item
        owner == probe.owner
        first == {k \in 1 .. 4 : /\ Hits(k, d, owner) # {}
                                 /\ \A j \in 1 .. (k - 1) : Hits(j, d, owner) = {}}
    IN IF first = {}
       THEN probe.result = NoMatch
       ELSE \A k \in first :
              /\ probe.result.match = Strategies[k]
              /\ probe.result.paper \in Hits(k, d, owner)

\* The candidate's arxiv_id is that of one record and its normalized title
\* that of another record of the scope only: the first was returned, as an
\* arxiv_id match.
C10_Witness ==
  /\ probe.asked
  /\ probe.owner = "u1"
  /\ probe.result.match = "arxiv_id"
  /\ probe.result.paper \notin Hits(4, probe.item, probe.owner)
  /\ probe.result.paper \notin Hits(3, probe.item, probe.owner)
  /\ Hits(4, probe.item, probe.owner) # {}
  /\ Hits(3, probe.item, probe.owner) # {}
  /\ probe.item.bibtex_key # None

\* The collections paper p has a membership row in
LinkedTo(p) == {m.collection_id : m \in {x \in members : x.paper_id = p}}

\* The records that candidate d matches by some strategy, in the whole table
Matching(d) == UNION {Hits(k, d, None) : k \in 1 .. 4}

\* C24: the record find_duplicate_paper returns for an owner scope is linked
\* to a collection created by that owner, whichever strategy found it: a
\* record linked to other users' collections only, or to none, is never
\* returned.  Without a scope every record is eligible: a candidate that
\* matches a record of the table gets a record.
C24_OwnerScope ==
  probe.asked =>
    /\ (probe.owner # None /\ probe.result.paper # NoPaper) =>
         \E cid \in LinkedTo(probe.result.paper) :
           cid \in DOMAIN collections /\ collections[cid] = probe.owner
    /\ (probe.owner = None /\ Matching(probe.item) # {}) =>
         probe.result.paper \in Matching(probe.item)

\* The candidate matches a record linked to no collection and a record
\* linked to a collection of u2 only; the call for the scope of u1 returned
\* none.
C24_Witness ==
  /\ probe.asked
  /\ probe.owner = "u1"
  /\ probe.result = NoMatch
  /\ \E p, q \in Matching(probe.item) :
       /\ LinkedTo(p) = {}
       /\ LinkedTo(q) = {UserColl("c2")}

-----------------------------------------------------------------------------
(* Properties of the keyword filter *)

\* The terms of the filter kws that carry the given prefix ("" for none),
\* blank expressions left out, in lower case
Terms(kws, prefix) ==
  LET exprs == {Strip(kws[k]) : k \in DOMAIN kws} \ {<<>>}
      prefixed(e) == Head(e) \in {"+", "-"}
  IN IF prefix = ""
     THEN {LowerAll(e) : e \in {x \in exprs : ~prefixed(x)}}
     ELSE {LowerAll(Tail(e)) : e \in {x \in exprs : Head(x) = prefix}}

\* C13: the keyword filter accepts a record if and only if every "+" term
\* matches the lowercased text of title and abstract, no "-" term matches it,
\* and, when there is an unprefixed term, at least one unprefixed term
\* matches; blank expressions count for nothing and an empty filter accepts
\* everything.  With the filter [+neural, -survey, gpt], "A Survey of GPT
\* Architectures" is rejected and "Neural GPT Models" is accepted.
C13_KeywordFilter ==
  probe.asked =>
    LET text == FilterText(probe.title, probe.abstract)
        kws == probe.keywords
    IN /\ probe.result <=>
            /\ \A r \in Terms(kws, "+") : KeywordMatch(r, text)
            /\ \A x \in Terms(kws, "-") : ~KeywordMatch(x, text)
            /\ Terms(kws, "") # {} =>
                 \E o \in Terms(kws, "") : KeywordMatch(o, text)
       /\ (kws = <<PlusNeural, MinusSurvey, Gpt>> /\ probe.abstract = <<>>) =>
            /\ probe.title = Survey => ~probe.result
            /\ probe.title = Neural => probe.result

\* A record whose text has a required and an optional term of the filter
\* was rejected for the excluded term it has too.
C13_Witness ==
  /\ probe.asked
  /\ ~probe.result
  /\ LET text == FilterText(probe.title, probe.abstract)
         kws == probe.keywords
     IN /\ Terms(kws, "+") # {}
        /\ \A r \in Terms(kws, "+") : KeywordMatch(r, text)
        /\ \E o \in Terms(kws, "") : KeywordMatch(o, text)
        /\ \E x \in Terms(kws, "-") : x # <<>> /\ KeywordMatch(x, text)

-----------------------------------------------------------------------------
(* Properties of validate_config *)

\* The value validate_config is to give the declared field f
Defaulted(f, config) ==
  IF f.key \in DOMAIN config THEN config[f.key] ELSE f.default

\* C14: validate_config fails if and only if some required declared field
\* has no value after defaulting; otherwise it returns a config whose keys
\* are exactly the declared ones, each with the raw value when the raw
\* config has the key and with the field's default when it has not; keys that
\* are not declared are not in the result.
C14_ValidateConfig ==
  probe.asked =>
    LET fields == probe.fields
        config == probe.config
        declared == {fields[i].key : i \in DOMAIN fields}
        missing == {i \in DOMAIN fields :
                      fields[i].required /\ Defaulted(fields[i], config) = None}
    IN /\ probe.result.raised <=> missing # {}
       /\ ~probe.result.raised =>
            /\ DOMAIN probe.result.cleaned = declared
            /\ \A i \in DOMAIN fields :
                 probe.result.cleaned[fields[i].key] =
                   Defaulted(fields[i], config)

\* A raw config with an undeclared key, a declared key it has and a declared
\* key it lacks was accepted: the field it lacks is required and got its
\* default.
C14_Witness ==
  /\ probe.asked
  /\ ~probe.result.raised
  /\ "extra" \in DOMAIN probe.config
  /\ \E i, j \in DOMAIN probe.fields :
       /\ probe.fields[i].key \in DOMAIN probe.config
       /\ probe.config[probe.fields[i].key] = "raw"
       /\ probe.fields[i].default = "default"
       /\ probe.fields[j].key \notin DOMAIN probe.config
       /\ probe.fields[j].required
       /\ probe.result.cleaned[probe.fields[j].key] = "default"

-----------------------------------------------------------------------------
(* Properties of source.fetch *)

\* C28: the fetch of the search-API source retries 429 responses in a row,
\* after a back-off wait each, at most 3 times: it then gets another
\* response or raises, returning no record; and a successful response
\* resets the count, so that only 429 responses in a row are counted.
C28_RateLimitRetries ==
  (probe.asked /\ probe.source = "semantic_scholar") =>
    /\ probe.waits <= 3
    /\ probe.streak <= 3
    /\ probe.streak >= 3 => (probe.pc = "raised" /\ probe.value = None)
    /\ probe.pc = "raised" => probe.value = None
    /\ (probe.streak = 0 /\ probe.pc # "raised") => probe.retries_left = 3
    /\ (probe.pc = "raised" /\ ~probe.failure) => probe.streak = 3

\* The fetch raised on 429 responses in a row, after an earlier row of them
\* had ended with a page whose records it had collected.
C28_Witness ==
  /\ probe.asked /\ probe.source = "semantic_scholar"
  /\ probe.pc = "raised"
  /\ probe.streak = 3
  /\ probe.recovered
  /\ probe.results > 0

\* C29: a fetch during which a request, the reading of a feed or the
\* decoding of a response failed raises: it never returns a list of results,
\* for the feed source (whichever category failed) and for the search-API
\* source (whichever page request failed).
C29_FailureRaises ==
  (probe.asked /\ probe.failure) => probe.pc # "returned"

====
